---------------------------- MODULE Spec2Model ----------------------------
(***************************************************************************)
(* Model of lambda_function.py: a scheduled handler that lists the running *)
(* EC2 instances and the RDS database instances of an account and stops    *)
(* them.  The provider (EC2 / RDS) is the environment: its instance states *)
(* are state of the model, and the outcome of every call is chosen         *)
(* nondeterministically among the outcomes boto3 can produce.              *)
(***************************************************************************)
EXTENDS Integers, Sequences, FiniteSets, TLC

(* ------------------------------ bounds -------------------------------- *)
NumVms == 2
NumDbs == 2
MaxPages == 2
\* how many calls the environment lets fail in one behaviour
MaxFaults == 2

Vms == 1..NumVms
Dbs == 1..NumDbs
\* Invocations of the handler the scheduler may trigger; nothing serialises
\* them, so they may overlap.
Invocations == {"run1", "run2"}

(* -------------------------- program constants -------------------------- *)
RUNNING_INSTANCES_STATE_CODE == 16
\* (the provider's other instance-state-code used here is 64, stopping; its
\* DBInstanceStatus values used here are available, stopping and stopped)

VARIABLES
    vmState,    \* provider: instance id -> instance-state-code
    dbStatus,   \* provider: db id -> DBInstanceStatus
    dbPages,    \* provider: how describe_db_instances splits its answer into pages
    pc,         \* invocation -> where it is
    dry_run,    \* invocation -> the dry_run argument given to the two helpers
    vm_list,    \* invocation -> result of get_ec2_vm_list
    vm_i,       \* invocation -> position of the for loop of turnoff_ec2_vms
    result,     \* invocation -> the list get_rds_db_list is building
    page_i,     \* invocation -> next page of the paginator
    db_list,    \* invocation -> result of get_rds_db_list
    db_i,       \* invocation -> position of the for loop of stop_rds_dbs
    calls,      \* invocation -> the provider calls it made, in order
    faults,     \* environment: how many calls it has let fail so far
    obj,        \* serializer: the value handed to json.dumps
    text        \* serializer: what json.dumps produced

vars == <<vmState, dbStatus, dbPages, pc, dry_run, vm_list, vm_i, result,
          page_i, db_list, db_i, calls, faults, obj, text>>
provider == <<vmState, dbStatus, dbPages>>
serializer == <<obj, text>>


(* ------------------------------ serializer ----------------------------- *)
(* Text is a sequence of one-character strings.  A Python value is a       *)
(* record tagged with its type in field t:                                 *)
(*   str (s), int (n), bool (b), none, dict (items: <<key, value>> pairs   *)
(*   in insertion order), date (y, mo, d), datetime (y, mo, d, h, mi, sec, *)
(*   us, aware, off: utc offset in minutes of an aware datetime), and two  *)
(*   types json cannot serialize and the encoder does not know: time       *)
(*   (datetime.time) and bytes.                                            *)
(***************************************************************************)
Digit(k) == <<"0", "1", "2", "3", "4", "5", "6", "7", "8", "9">>[k + 1]

\* n written in exactly w decimal digits, zero padded ("%04d", "%02d", "%06d")
RECURSIVE Pad(_, _)
Pad(n, w) == IF w = 0 THEN <<>> ELSE Pad(n \div 10, w - 1) \o <<Digit(n % 10)>>

RECURSIVE NatText(_)
NatText(n) == IF n < 10 THEN <<Digit(n)>> ELSE NatText(n \div 10) \o <<Digit(n % 10)>>

\* int.__repr__, which json uses for integers
IntText(n) == IF n < 0 THEN <<"-">> \o NatText(-n) ELSE NatText(n)

\* datetime.date.isoformat(): YYYY-MM-DD
DateIso(v) == Pad(v.y, 4) \o <<"-">> \o Pad(v.mo, 2) \o <<"-">> \o Pad(v.d, 2)

\* the utc offset of an aware datetime, "+HH:MM" / "-HH:MM"; nothing when naive
TzIso(v) ==
    IF ~v.aware THEN <<>>
    ELSE LET a == IF v.off < 0 THEN -v.off ELSE v.off
         IN  <<IF v.off < 0 THEN "-" ELSE "+">> \o Pad(a \div 60, 2) \o <<":">>
             \o Pad(a % 60, 2)

\* obj.isoformat() for the two types of the isinstance test
isoformat(v) ==
    IF v.t = "date" THEN DateIso(v)
    ELSE DateIso(v) \o <<"T">> \o Pad(v.h, 2) \o <<":">> \o Pad(v.mi, 2) \o <<":">>
         \o Pad(v.sec, 2)
         \o (IF v.us = 0 THEN <<>> ELSE <<".">> \o Pad(v.us, 6))
         \o TzIso(v)

StrVal(s) == [t |-> "str", s |-> s]
NoneVal == [t |-> "none"]
\* what a call of default() gives back: a value, or an exception
Returned(v) == [exc |-> "none", v |-> v]
Raised(e) == [exc |-> e, v |-> NoneVal]

\* json.JSONEncoder.default, the method the class overrides: always raises
BaseDefault(v) == Raised("TypeError")

\* DateTimeEncoder.default: isoformat for date and datetime; for any other
\* object the method falls off its end, i.e. returns None.
default(v) ==
    IF v.t \in {"date", "datetime"} THEN Returned(StrVal(isoformat(v)))
    ELSE Returned(NoneVal)

\* py_encode_basestring_ascii on the characters used here: quote and backslash
\* are escaped, the string is wrapped in double quotes.
RECURSIVE Escape(_)
Escape(s) ==
    IF s = <<>> THEN <<>>
    ELSE (IF Head(s) \in {"\"", "\\"} THEN <<"\\", Head(s)>> ELSE <<Head(s)>>)
         \o Escape(Tail(s))

Quote(s) == <<"\"">> \o Escape(s) \o <<"\"">>

Ok(s) == [exc |-> "none", s |-> s]
Fail(e) == [exc |-> e, s |-> <<>>]

\* JSONEncoder.encode with cls=DateTimeEncoder: the types json knows are
\* written directly, a dict as {"k": v, "k": v} with the default separators,
\* anything else goes through default() and its result is encoded in turn.
RECURSIVE Encode(_)
RECURSIVE EncodeItems(_, _)
EncodeItems(items, first) ==
    IF items = <<>> THEN Ok(<<>>)
    ELSE LET k == Head(items)[1]
             one == Encode(Head(items)[2])
             rest == EncodeItems(Tail(items), FALSE)
         IN  IF one.exc # "none" THEN one
             ELSE IF rest.exc # "none" THEN rest
             ELSE Ok((IF first THEN <<>> ELSE <<",", " ">>) \o Quote(k) \o <<":", " ">>
                     \o one.s \o rest.s)

Encode(v) ==
    CASE v.t = "str" -> Ok(Quote(v.s))
      [] v.t = "int" -> Ok(IntText(v.n))
      [] v.t = "bool" -> Ok(IF v.b THEN <<"t", "r", "u", "e">> ELSE <<"f", "a", "l", "s", "e">>)
      [] v.t = "none" -> Ok(<<"n", "u", "l", "l">>)
      [] v.t = "dict" -> LET inner == EncodeItems(v.items, TRUE)
                         IN  IF inner.exc # "none" THEN inner
                             ELSE Ok(<<"{">> \o inner.s \o <<"}">>)
      [] OTHER -> LET r == default(v)
                  IN  IF r.exc # "none" THEN Fail(r.exc) ELSE Encode(r.v)

\* json.dumps(db_instance, cls=DateTimeEncoder)
json_dumps(v) == Encode(v)

\* sub occurs in s as a contiguous run of characters
Contains(s, sub) ==
    \E i \in 1..(Len(s) - Len(sub) + 1) : SubSeq(s, i, i + Len(sub) - 1) = sub

K_DBInstanceIdentifier == <<"D", "B", "I", "n", "s", "t", "a", "n", "c", "e", "I", "d", "e", "n", "t", "i", "f", "i", "e", "r">>
K_DBInstanceStatus == <<"D", "B", "I", "n", "s", "t", "a", "n", "c", "e", "S", "t", "a", "t", "u", "s">>
K_InstanceCreateTime == <<"I", "n", "s", "t", "a", "n", "c", "e", "C", "r", "e", "a", "t", "e", "T", "i", "m", "e">>

\* the characters of the strings the provider model uses
Chars(str) ==
    CASE str = "available" -> <<"a", "v", "a", "i", "l", "a", "b", "l", "e">>
      [] str = "stopping" -> <<"s", "t", "o", "p", "p", "i", "n", "g">>
      [] str = "stopped" -> <<"s", "t", "o", "p", "p", "e", "d">>

\* DBInstanceIdentifier of database d: "db1", "db2", ...
DbName(d) == <<"d", "b">> \o NatText(d)

\* InstanceCreateTime of database d, an aware datetime as boto3 returns it
CreateTime(d) ==
    [t |-> "datetime", y |-> 2020 + d, mo |-> d, d |-> 10 + d, h |-> 9, mi |-> 5,
     sec |-> d, us |-> 123000 * (d % 2), aware |-> TRUE, off |-> 0]

\* One element of page['DBInstances'] as Python sees it.  InstanceCreateTime
\* never changes, so the listed records of the model do not carry a copy.
AsValue(rec) ==
    [t |-> "dict",
     items |-> << <<K_DBInstanceIdentifier, StrVal(DbName(rec.DBInstanceIdentifier))>>,
                  <<K_DBInstanceStatus, StrVal(Chars(rec.DBInstanceStatus))>>,
                  <<K_InstanceCreateTime, CreateTime(rec.DBInstanceIdentifier)>> >>]


(* ------------------------------- provider ------------------------------ *)
\* A call as the provider receives it.  id: the instance or database the call
\* names (the page number for a listing page); seen: the state the provider
\* had for it when the call arrived.
Call(api, id, dry, outcome, seen) ==
    [api |-> api, id |-> id, DryRun |-> dry, outcome |-> outcome, seen |-> seen]

\* How describe_db_instances may split its answer: at least one page, pages
\* may be empty, every database once, in the provider's order.
Cuts(k) == {c \in [1..k -> 0..NumDbs] :
               c[k] = NumDbs /\ \A j \in 1..(k - 1) : c[j] <= c[j + 1]}
PageOf(c, j) == LET lo == IF j = 1 THEN 0 ELSE c[j - 1]
                IN  [n \in 1..(c[j] - lo) |-> lo + n]
Layouts == UNION {{[j \in 1..k |-> PageOf(c, j)] : c \in Cuts(k)} : k \in 1..MaxPages}
\* The answer with one database on each page
OnePerPage == [j \in Dbs |-> <<j>>]

\* The element of page['DBInstances'] the provider returns for database d
Describe(d) ==
    [DBInstanceIdentifier |-> d, DBInstanceStatus |-> dbStatus[d]]

\* Outcomes of instance.stop: with DryRun the provider changes nothing and
\* answers with a client error (DryRunOperation / UnauthorizedOperation);
\* any call can also fail below the provider (connection, timeout), which
\* botocore reports with an exception that is not a ClientError.
\* The environment lets at most MaxFaults calls fail.  The provider's answer
\* to a DryRun call is no failure, nor is its answer to StopDBInstance for a
\* database that is not available: the provider may reject that call
\* (InvalidDBInstanceState) or take it as done.
Outcomes(normal, failures) == normal \cup (IF faults < MaxFaults THEN failures ELSE {})
Ec2StopOutcomes(dry) ==
    IF dry THEN Outcomes({"ClientError"}, {"OtherError"})
    ELSE Outcomes({"ok"}, {"ClientError", "OtherError"})
RdsStopOutcomes(status) ==
    IF status = "available" THEN Outcomes({"ok"}, {"ClientError"}) ELSE {"ok", "ClientError"}
ListOutcomes == Outcomes({"ok"}, {"ClientError"})
Failed(c) ==
    CASE c.api = "stop_instances" -> c.outcome # (IF c.DryRun THEN "ClientError" ELSE "ok")
      [] c.api = "stop_db_instance" -> c.outcome # "ok" /\ c.seen = "available"
      [] OTHER -> c.outcome # "ok"

\* StopInstances accepted: a running instance starts stopping.  (It is stopped,
\* code 80, some time later; the program tells running from not running only.)
VmAfterStop(code) == IF code = RUNNING_INSTANCES_STATE_CODE THEN 64 ELSE code
\* StopDBInstance accepted: an available database starts stopping
DbAfterStop(status) == IF status = "available" THEN "stopping" ELSE status

(* ------------------------------- helpers ------------------------------- *)
Last(s) == s[Len(s)]
IsPrefix(s, t) == Len(s) <= Len(t) /\ SubSeq(t, 1, Len(s)) = s
ByApi(p, api) == SelectSeq(calls[p], LAMBDA c : c.api = api)
\* the instance ids in increasing order, as a sequence
RECURSIVE Ascending(_)
Ascending(S) ==
    IF S = {} THEN <<>>
    ELSE LET m == CHOOSE x \in S : \A y \in S : x <= y
         IN  <<m>> \o Ascending(S \ {m})

(* ------------------------------ the program ---------------------------- *)
\* The database phase before the compute stops
SwappedPhases(phase) ==
    CASE phase = "get_ec2_vm_list" -> "get_rds_db_list"
      [] phase = "get_rds_db_list" -> "turnoff_ec2_vms"
      [] phase = "turnoff_ec2_vms" -> "stop_rds_dbs"
      [] phase = "stop_rds_dbs" -> "done"

\* lambda_handler: the order of its four calls
NextPhase(phase) ==
    CASE phase = "get_ec2_vm_list" -> "turnoff_ec2_vms"
      [] phase = "turnoff_ec2_vms" -> "get_rds_db_list"
      [] phase = "get_rds_db_list" -> "stop_rds_dbs"
      [] phase = "stop_rds_dbs" -> "done"

\* lambda_handler passes False to both helpers
HandlerDryRun == FALSE

\* the Filters argument of ec2.instances.filter
RunningFilter(code) == code = RUNNING_INSTANCES_STATE_CODE

\* The flag not passed on
DryRunDropped(dry) == [Hibernate |-> FALSE, DryRun |-> FALSE]

\* instance.stop(Hibernate=False, DryRun=dry_run)
StopArgs(dry) == [Hibernate |-> FALSE, DryRun |-> dry]

\* except Exception
ExceptAnything(outcome) == outcome # "ok"

\* no try around the call
ExceptNothing(outcome) == FALSE

\* except ClientError
ExceptClientError(outcome) == outcome = "ClientError"

\* for db_instance in page['DBInstances']: result.append(db_instance)
RECURSIVE AppendPage(_, _)
AppendPage(res, records) ==
    IF records = <<>> THEN res
    ELSE AppendPage(Append(res, Head(records)), Tail(records))

\* Only the first page is read
OnlyFirstPage(i) == i <= 1

\* for page in paginator: the loop goes on while the paginator has a page
HasNextPage(i) == i <= Len(dbPages)

\* The phase the handler is in once the loops that have nothing left to do
\* have ended: a for loop at the end of its list falls through to the
\* handler's next call.
RECURSIVE Resume(_, _, _, _, _)
Resume(phase, vl, vi, dl, di) ==
    IF \/ phase = "turnoff_ec2_vms" /\ vi > Len(vl)
       \/ phase = "stop_rds_dbs" /\ di > Len(dl)
    THEN Resume(NextPhase(phase), vl, vi, dl, di)
    ELSE phase

\* if dry_run: continue
DryRunSkips(dry) == dry

\* Anything but an available database is skipped
IsNotAvailable(db_instance) == db_instance.DBInstanceStatus # "available"

\* The status is asked again right before the stop
IsStoppedNow(db_instance) == dbStatus[db_instance.DBInstanceIdentifier] = "stopped"

\* db_instance['DBInstanceStatus'] == 'stopped'
IsStopped(db_instance) == db_instance.DBInstanceStatus = "stopped"

\* The call inside try / except, as in turnoff_ec2_vms
RdsFaultCaught(outcome) == FALSE

\* stop_db_instance is not inside a try: whatever it raises leaves the loop
RdsFaultPropagates(outcome) == outcome # "ok"

Goto(p, phase) ==
    pc' = [pc EXCEPT ![p] = Resume(phase, vm_list'[p], vm_i'[p], db_list'[p], db_i'[p])]

\* A handler that swallows the exception and goes on with its next call
SwallowAndGoOn(p) == Goto(p, NextPhase(pc[p]))

\* An exception nothing catches leaves lambda_handler: the invocation ends
Raise(p) == pc' = [pc EXCEPT ![p] = "raised"]
Record(p, c) ==
    /\ calls' = [calls EXCEPT ![p] = Append(@, c)]
    /\ faults' = IF Failed(c) THEN faults + 1 ELSE faults
Silent == UNCHANGED <<calls, faults>>

\* vm_list = get_ec2_vm_list().  The collection is read in pages of
\* MaxResults=20 instances and the loop reads them all; the accounts of this
\* model hold fewer instances than one page.
get_ec2_vm_list(p) ==
    /\ pc[p] = "get_ec2_vm_list"
    /\ UNCHANGED <<provider, dry_run, vm_i, result, page_i, db_list, db_i, serializer>>
    /\ \E outcome \in ListOutcomes :
          /\ Record(p, Call("describe_instances", 0, FALSE, outcome, 0))
          /\ IF outcome = "ok"
             THEN /\ vm_list' = [vm_list EXCEPT ![p] =
                                   Ascending({v \in Vms : RunningFilter(vmState[v])})]
                  /\ Goto(p, NextPhase(pc[p]))
             ELSE /\ UNCHANGED vm_list
                  /\ Raise(p)

\* turnoff_ec2_vms(vm_list, dry_run): one turn of the for loop
turnoff_ec2_vms(p) ==
    /\ pc[p] = "turnoff_ec2_vms"
    /\ UNCHANGED <<dbStatus, dbPages, dry_run, vm_list, result, page_i, db_list, db_i,
                   serializer>>
    /\ LET instance == vm_list[p][vm_i[p]]
           args == StopArgs(dry_run[p])
       IN  \E outcome \in Ec2StopOutcomes(args.DryRun) :
              /\ Record(p, Call("stop_instances", instance, args.DryRun, outcome,
                                vmState[instance]))
              /\ vmState' = IF outcome = "ok"
                            THEN [vmState EXCEPT ![instance] = VmAfterStop(@)]
                            ELSE vmState
              /\ IF outcome = "ok" \/ ExceptClientError(outcome)
                 THEN /\ vm_i' = [vm_i EXCEPT ![p] = @ + 1]
                      /\ Goto(p, pc[p])
                 ELSE /\ UNCHANGED vm_i
                      /\ Raise(p)

\* db_list = get_rds_db_list(): one page of the paginator; after the last
\* page the function returns its result
get_rds_db_list(p) ==
    /\ pc[p] = "get_rds_db_list"
    /\ UNCHANGED <<provider, dry_run, vm_list, vm_i, db_i, serializer>>
    /\ \E outcome \in ListOutcomes :
          /\ Record(p, Call("describe_db_instances", page_i[p], FALSE, outcome, 0))
          /\ IF outcome = "ok"
             THEN LET page == [DBInstances |->
                                 [n \in DOMAIN dbPages[page_i[p]] |->
                                     Describe(dbPages[page_i[p]][n])]]
                  IN  /\ result' = [result EXCEPT ![p] = AppendPage(@, page.DBInstances)]
                      /\ page_i' = [page_i EXCEPT ![p] = @ + 1]
                      /\ IF HasNextPage(page_i'[p])
                         THEN UNCHANGED <<pc, db_list>>
                         ELSE /\ db_list' = [db_list EXCEPT ![p] = result'[p]]
                              /\ Goto(p, NextPhase(pc[p]))
             ELSE /\ UNCHANGED <<result, page_i, db_list>>
                  /\ Raise(p)

\* stop_rds_dbs(db_list, dry_run): one turn of the for loop
stop_rds_dbs(p) ==
    /\ pc[p] = "stop_rds_dbs"
    /\ UNCHANGED <<vmState, dbPages, dry_run, vm_list, vm_i, result, page_i, db_list,
                   serializer>>
    /\ LET db_instance == db_list[p][db_i[p]]
           line == json_dumps(AsValue(db_instance))
           id == db_instance.DBInstanceIdentifier
       IN  IF line.exc # "none"
           THEN /\ UNCHANGED <<dbStatus, db_i>>
                /\ Silent
                /\ Raise(p)
           ELSE IF DryRunSkips(dry_run[p]) \/ IsStopped(db_instance)
           THEN /\ db_i' = [db_i EXCEPT ![p] = @ + 1]
                /\ UNCHANGED dbStatus
                /\ Silent
                /\ Goto(p, pc[p])
           ELSE \E outcome \in RdsStopOutcomes(dbStatus[id]) :
                   /\ Record(p, Call("stop_db_instance", id, FALSE, outcome, dbStatus[id]))
                   /\ dbStatus' = IF outcome = "ok"
                                  THEN [dbStatus EXCEPT ![id] = DbAfterStop(@)]
                                  ELSE dbStatus
                   /\ IF RdsFaultPropagates(outcome)
                      THEN /\ UNCHANGED db_i
                           /\ Raise(p)
                      ELSE /\ db_i' = [db_i EXCEPT ![p] = @ + 1]
                           /\ Goto(p, pc[p])

program == <<pc, dry_run, vm_list, vm_i, result, page_i, db_list, db_i, calls, faults>>

\* The provider finishes stopping a database: stopping becomes stopped
ProviderSettles ==
    /\ \E d \in Dbs : /\ dbStatus[d] = "stopping"
                      /\ dbStatus' = [dbStatus EXCEPT ![d] = "stopped"]
    /\ UNCHANGED <<vmState, dbPages, program, serializer>>

\* Somebody else (an operator, another scheduled job) stops an instance or a
\* database while the handler runs
StoppedElsewhere ==
    /\ \/ \E v \in Vms : /\ vmState[v] = RUNNING_INSTANCES_STATE_CODE
                         /\ vmState' = [vmState EXCEPT ![v] = VmAfterStop(@)]
                         /\ UNCHANGED dbStatus
       \/ \E d \in Dbs : /\ dbStatus[d] = "available"
                         /\ dbStatus' = [dbStatus EXCEPT ![d] = DbAfterStop(@)]
                         /\ UNCHANGED vmState
    /\ UNCHANGED <<dbPages, program, serializer>>

\* The provider's account when the handler is triggered, and the invocations
SerializerIdle == obj = NoneVal /\ text = Ok(<<>>)

\* in `triggered` at their first statement with a dry_run of `dry`
InitProgram(triggered, dry, layouts) ==
    /\ vmState = [v \in Vms |-> RUNNING_INSTANCES_STATE_CODE]
    /\ dbStatus = [d \in Dbs |-> "available"]
    /\ dbPages \in layouts
    /\ pc = [p \in Invocations |-> IF p \in triggered THEN "get_ec2_vm_list" ELSE "idle"]
    /\ dry_run \in {f \in [Invocations -> BOOLEAN] :
                      \A p \in Invocations : f[p] \in (IF p \in triggered THEN dry ELSE {FALSE})}
    /\ vm_list = [p \in Invocations |-> <<>>]
    /\ vm_i = [p \in Invocations |-> 1]
    /\ result = [p \in Invocations |-> <<>>]
    /\ page_i = [p \in Invocations |-> 1]
    /\ db_list = [p \in Invocations |-> <<>>]
    /\ db_i = [p \in Invocations |-> 1]
    /\ calls = [p \in Invocations |-> <<>>]
    /\ faults = 0

\* lambda_handler(event, context): the next step of invocation p
lambda_handler(p) ==
    \/ get_ec2_vm_list(p)
    \/ turnoff_ec2_vms(p)
    \/ get_rds_db_list(p)
    \/ stop_rds_dbs(p)

\* One invocation of the handler as deployed (dry_run False in both helpers),
\* in an account that others may change meanwhile
Init == InitProgram({"run1"}, {HandlerDryRun}, {OnePerPage}) /\ SerializerIdle

Next ==
    \/ \E p \in Invocations : lambda_handler(p)
    \/ ProviderSettles
    \/ StoppedElsewhere

Spec == Init /\ [][Next]_vars

\* Two overlapping invocations of the handler as deployed
InitOverlap == InitProgram(Invocations, {HandlerDryRun}, {OnePerPage}) /\ SerializerIdle

NextOverlap ==
    \/ \E p \in Invocations : lambda_handler(p)
    \/ ProviderSettles

SpecOverlap == InitOverlap /\ [][NextOverlap]_vars

\* The two helpers called with either value of dry_run
InitHelpers == InitProgram({"run1"}, BOOLEAN, {OnePerPage}) /\ SerializerIdle

SpecHelpers == InitHelpers /\ [][Next]_vars

\* One invocation of the handler, whatever way the provider pages its answer
InitPages == InitProgram({"run1"}, {HandlerDryRun}, Layouts) /\ SerializerIdle

NextPages ==
    \/ \E p \in Invocations : lambda_handler(p)
    \/ ProviderSettles

SpecPages == InitPages /\ [][NextPages]_vars


(* --------------------------- the serializer alone ---------------------- *)
K_Field == <<"F", "i", "e", "l", "d">>

DateTimes ==
    [t : {"datetime"}, y : {1, 2024}, mo : {1, 12}, d : {1, 31}, h : {0, 23}, mi : {5},
     sec : {59}, us : {0, 5, 123456}, aware : {TRUE}, off : {0, 60, -330}]
    \cup
    [t : {"datetime"}, y : {1, 2024}, mo : {1, 12}, d : {1, 31}, h : {0, 23}, mi : {5},
     sec : {59}, us : {0, 5, 123456}, aware : {FALSE}, off : {0}]

\* Values of the other field of the record: types json writes itself, a
\* date, a dict holding a date, and two types only default() could handle
OtherValues ==
    { [t |-> "int", n |-> -20], [t |-> "bool", b |-> TRUE], NoneVal,
      StrVal(<<"a", "\"", "b">>),
      [t |-> "date", y |-> 1999, mo |-> 2, d |-> 3],
      [t |-> "dict", items |-> << <<K_Field, [t |-> "date", y |-> 800, mo |-> 12, d |-> 25]>> >>],
      [t |-> "time", h |-> 1, mi |-> 2, sec |-> 3],
      [t |-> "bytes"] }

\* A record of describe_db_instances with its date/time field and one more
DbRecordValue(created, other) ==
    [t |-> "dict",
     items |-> << <<K_DBInstanceIdentifier, StrVal(DbName(1))>>,
                  <<K_DBInstanceStatus, StrVal(Chars("available"))>>,
                  <<K_InstanceCreateTime, created>>,
                  <<K_Field, other>> >>]

Pending == [exc |-> "pending", s |-> <<>>]

\* No invocation is triggered; json.dumps is handed one record
InitSer ==
    /\ InitProgram({}, {HandlerDryRun}, {OnePerPage})
    /\ obj \in {DbRecordValue(created, other) : created \in DateTimes, other \in OtherValues}
    /\ text = Pending

\* json.dumps(db_instance, cls=DateTimeEncoder)
JsonDumps ==
    /\ text = Pending
    /\ text' = json_dumps(obj)
    /\ UNCHANGED <<provider, program, obj>>

NextSer == JsonDumps

SpecSer == InitSer /\ [][NextSer]_vars


(* ------------------------------ properties ----------------------------- *)
Ids(seq) == [i \in DOMAIN seq |-> seq[i].id]
DbIds(seq) == [i \in DOMAIN seq |-> seq[i].DBInstanceIdentifier]
Count(seq, id) == Cardinality({i \in DOMAIN seq : seq[i].id = id})
Ec2Stops(p) == ByApi(p, "stop_instances")
RdsStops(p) == ByApi(p, "stop_db_instance")
DbListings(p) == ByApi(p, "describe_db_instances")
Outcome(seq, o) == \E i \in DOMAIN seq : seq[i].outcome = o

\* the invocation is over, normally or by an exception
Ended(p) == pc[p] \in {"done", "raised"}
\* the invocation ended by an exception that came out of a call of `api`
RaisedBy(p, api) == pc[p] = "raised" /\ calls[p] # <<>> /\ Last(calls[p]).api = api
\* p took a step
Stepped(p) ==
    \/ pc'[p] # pc[p]
    \/ vm_i'[p] # vm_i[p]
    \/ page_i'[p] # page_i[p]
    \/ db_i'[p] # db_i[p]
    \/ calls'[p] # calls[p]
\* p made a call in this step
Called(p, api) ==
    /\ Len(calls'[p]) = Len(calls[p]) + 1
    /\ Last(calls'[p]).api = api
\* an invocation that raised does nothing more, and no call is taken back
NothingAfterRaise(p) ==
    /\ IsPrefix(calls[p], calls'[p])
    /\ pc[p] = "raised" => /\ pc'[p] = "raised"
                           /\ calls'[p] = calls[p]

\* C1 as stated: when an invocation is over, every instance get_ec2_vm_list
\* returned has had exactly one stop request, whatever the other requests did.
C1_Original ==
    \A p \in Invocations :
        Ended(p) => \A k \in DOMAIN vm_list[p] : Count(Ec2Stops(p), vm_list[p][k]) = 1

\* C1, amended: the stop requests of an invocation go to the listed instances
\* in list order, one each and never two; a request that raises an exception
\* other than ClientError is the last one; and when the invocation is over
\* and no request raised such an exception, every listed instance has had
\* exactly one request, whatever the ClientErrors of the others.
C1_OncePerListedInstance ==
    \A p \in Invocations :
        LET stops == Ec2Stops(p)
            n == Len(stops)
        IN  /\ \A i, j \in DOMAIN vm_list[p] : i # j => vm_list[p][i] # vm_list[p][j]
            /\ n <= Len(vm_list[p])
            /\ Ids(stops) = SubSeq(vm_list[p], 1, n)
            /\ \A i \in 1..n : stops[i].outcome = "OtherError" => i = n /\ pc[p] = "raised"
            /\ (Ended(p) /\ ~Outcome(stops, "OtherError") /\ ~RaisedBy(p, "describe_instances"))
                  => \A k \in DOMAIN vm_list[p] : Count(stops, vm_list[p][k]) = 1

C1_Witness ==
    \E p \in Invocations :
        /\ pc[p] = "done"
        /\ Len(vm_list[p]) >= 2
        /\ Ec2Stops(p)[1].outcome = "ClientError"
        /\ \A k \in DOMAIN vm_list[p] : Count(Ec2Stops(p), vm_list[p][k]) = 1

\* C2: every compute stop call carries DryRun equal to the dry_run argument
\* (true or false); with dry_run true no database stop call is made,
\* whatever the statuses listed; and no step of a helper running with
\* dry_run true changes a state the provider holds.
C2_DryRunPassedAndHonoured ==
    /\ [](\A p \in Invocations :
            /\ \A i \in DOMAIN Ec2Stops(p) : Ec2Stops(p)[i].DryRun = dry_run[p]
            /\ dry_run[p] => RdsStops(p) = <<>>)
    /\ [][\A p \in Invocations :
            (dry_run[p] /\ Stepped(p)) => UNCHANGED <<vmState, dbStatus>>]_vars

C2_Witness ==
    \E p \in Invocations :
        /\ dry_run[p]
        /\ pc[p] = "done"
        /\ Len(Ec2Stops(p)) >= 2
        /\ \A i \in DOMAIN Ec2Stops(p) : Ec2Stops(p)[i].DryRun
        /\ Len(db_list[p]) >= 2
        /\ \E k \in DOMAIN db_list[p] : db_list[p][k].DBInstanceStatus = "available"
        /\ \E k \in DOMAIN db_list[p] : db_list[p][k].DBInstanceStatus = "stopping"
        /\ \A v \in Vms : vmState[v] = RUNNING_INSTANCES_STATE_CODE

\* C3 as stated: once stop_rds_dbs has run (dry_run false), every record of
\* the list whose status is "stopped" has no stop call and every other
\* record has exactly one.
C3_Original ==
    \A p \in Invocations :
        (pc[p] = "done" \/ RaisedBy(p, "stop_db_instance")) =>
            \A k \in DOMAIN db_list[p] :
                Count(RdsStops(p), db_list[p][k].DBInstanceIdentifier)
                    = IF db_list[p][k].DBInstanceStatus = "stopped" THEN 0 ELSE 1

\* C3, amended: for every record the loop of stop_rds_dbs has reached (all of
\* them when no stop call raises, otherwise those up to the one whose stop
\* call raised): no stop call if its listed status is "stopped", exactly one
\* stop call, naming its DBInstanceIdentifier, for any other status.  Records
\* the loop has not reached have none, and no other database is named.
C3_StoppedSkippedOthersOnce ==
    \A p \in Invocations :
        /\ \A i \in DOMAIN RdsStops(p) :
              \E k \in DOMAIN db_list[p] : db_list[p][k].DBInstanceIdentifier = RdsStops(p)[i].id
        /\ \A k \in DOMAIN db_list[p] :
              LET reached == \/ k < db_i[p]
                             \/ k = db_i[p] /\ RaisedBy(p, "stop_db_instance")
              IN  Count(RdsStops(p), db_list[p][k].DBInstanceIdentifier)
                     = IF reached /\ db_list[p][k].DBInstanceStatus # "stopped" THEN 1 ELSE 0

C3_Witness ==
    \E p \in Invocations :
        /\ pc[p] = "done"
        /\ \E k \in DOMAIN db_list[p] :
              /\ db_list[p][k].DBInstanceStatus = "stopped"
              /\ Count(RdsStops(p), db_list[p][k].DBInstanceIdentifier) = 0
        /\ \E k \in DOMAIN db_list[p] :
              /\ db_list[p][k].DBInstanceStatus = "stopping"
              /\ Count(RdsStops(p), db_list[p][k].DBInstanceIdentifier) = 1

\* C4: a ClientError raised by the stop request of one compute instance is
\* caught: the loop goes to the next instance of the list, or, after the last
\* one, the helper returns and the handler goes on to the database listing.
\* So when an invocation in which a compute stop raised a ClientError (and
\* none raised another kind of exception) is over, every listed instance has
\* had its stop request and the database listing was called.
C4_ClientErrorCaught ==
    /\ [](\A p \in Invocations :
            (Ended(p) /\ Outcome(Ec2Stops(p), "ClientError")
                      /\ ~Outcome(Ec2Stops(p), "OtherError"))
               => /\ Ids(Ec2Stops(p)) = vm_list[p]
                  /\ DbListings(p) # <<>>)
    /\ [][\A p \in Invocations :
            (Called(p, "stop_instances") /\ Last(calls'[p]).outcome = "ClientError")
               => /\ vm_i'[p] = vm_i[p] + 1
                  /\ pc'[p] = IF vm_i'[p] <= Len(vm_list[p])
                              THEN "turnoff_ec2_vms" ELSE "get_rds_db_list"]_vars

C4_Witness ==
    \E p \in Invocations :
        /\ pc[p] = "done"
        /\ Len(Ec2Stops(p)) >= 2
        /\ Ec2Stops(p)[1].outcome = "ClientError"
        /\ Ec2Stops(p)[2].outcome = "ok"
        /\ DbListings(p) # <<>>

\* C5: a fault raised by the database stop call on one record ends the
\* invocation by raising: that call is its last, the records after it in the
\* list get no stop call, and the calls made before it stay made (no call is
\* taken back, no database goes back to available).
C5_RdsFaultAborts ==
    /\ [](\A p \in Invocations :
            \A i \in DOMAIN RdsStops(p) :
                RdsStops(p)[i].outcome # "ok" =>
                    /\ i = Len(RdsStops(p))
                    /\ RaisedBy(p, "stop_db_instance")
                    /\ db_list[p][db_i[p]].DBInstanceIdentifier = RdsStops(p)[i].id
                    /\ \A k \in DOMAIN db_list[p] :
                          k > db_i[p] =>
                              Count(RdsStops(p), db_list[p][k].DBInstanceIdentifier) = 0)
    /\ [][/\ \A p \in Invocations : NothingAfterRaise(p)
          /\ \A d \in Dbs : dbStatus[d] # "available" => dbStatus'[d] # "available"]_vars

C5_Witness ==
    \E p \in Invocations :
        /\ RaisedBy(p, "stop_db_instance")
        /\ db_i[p] = 1
        /\ Len(db_list[p]) >= 2
        /\ db_list[p][2].DBInstanceStatus = "available"
        /\ Len(RdsStops(p)) = 1

\* C6: a listing that raises ends the invocation: after a failed compute
\* listing the invocation has made no other call at all; after a failed
\* database listing (on any page) it has made no database stop call, and the
\* compute stop requests it made before stay made.
C6_ListingFailureAborts ==
    /\ [](\A p \in Invocations :
            /\ \A i \in DOMAIN calls[p] :
                  (calls[p][i].api \in {"describe_instances", "describe_db_instances"}
                   /\ calls[p][i].outcome # "ok")
                     => i = Len(calls[p]) /\ pc[p] = "raised"
            /\ RaisedBy(p, "describe_instances") => Len(calls[p]) = 1
            /\ RaisedBy(p, "describe_db_instances") =>
                  /\ RdsStops(p) = <<>>
                  /\ db_list[p] = <<>>
                  /\ Ids(Ec2Stops(p)) = vm_list[p])
    /\ [][\A p \in Invocations :
            /\ IsPrefix(calls[p], calls'[p])
            /\ pc[p] = "raised" => ~Stepped(p)]_vars

C6_Witness ==
    \E p \in Invocations :
        /\ RaisedBy(p, "describe_db_instances")
        /\ Last(calls[p]).id = 2
        /\ Len(Ec2Stops(p)) >= 2
        /\ \A i \in DOMAIN Ec2Stops(p) : Ec2Stops(p)[i].outcome = "ok"

\* the pages one after the other
RECURSIVE Flatten(_)
Flatten(pages) == IF pages = <<>> THEN <<>> ELSE Head(pages) \o Flatten(Tail(pages))

\* C7: get_rds_db_list returns the records of all the pages: every record of
\* every page once, in page order and in the order within the page, nothing
\* else; an empty page adds nothing.  While it runs, its result holds the
\* pages read so far.
C7_AllPagesInOrder ==
    \A p \in Invocations :
        /\ pc[p] = "get_rds_db_list" =>
              DbIds(result[p]) = Flatten(SubSeq(dbPages, 1, page_i[p] - 1))
        /\ (pc[p] \in {"stop_rds_dbs", "done"} \/ RaisedBy(p, "stop_db_instance")) =>
              /\ DbIds(db_list[p]) = Flatten(dbPages)
              /\ Ids(DbListings(p)) = [i \in 1..Len(dbPages) |-> i]

C7_Witness ==
    \E p \in Invocations :
        /\ pc[p] = "done"
        /\ Len(dbPages) >= 2
        /\ dbPages[1] = <<>>
        /\ Len(db_list[p]) >= 2

\* C8: json.dumps of a database record with DateTimeEncoder does not raise,
\* its text holds the ISO-8601 text of the date/time field as the value of
\* that field, and a value of a type neither json nor the encoder knows is
\* written as null instead of raising.
C8_DateTimeSerialized ==
    text # Pending /\ text # Ok(<<>>) =>
        LET created == obj.items[3][2]
            other == obj.items[4][2]
        IN  /\ text.exc = "none"
            /\ Contains(text.s, Quote(K_InstanceCreateTime) \o <<":", " ">>
                                \o Quote(isoformat(created)))
            /\ other.t = "date" => Contains(text.s, Quote(isoformat(other)))
            /\ other.t \in {"time", "bytes"} =>
                  Contains(text.s, Quote(K_Field) \o <<":", " ", "n", "u", "l", "l">>)

C8_Witness ==
    /\ text # Pending /\ text # Ok(<<>>)
    /\ obj.items[4][2].t = "bytes"
    /\ Contains(text.s, Quote(<<"2", "0", "2", "4", "-", "0", "1", "-", "3", "1", "T", "2", "3", ":", "0", "5", ":", "5", "9", ".", "0", "0", "0", "0", "0", "5", "-", "0", "5", ":", "3", "0">>))
    /\ Contains(text.s, Quote(K_Field) \o <<":", " ", "n", "u", "l", "l">>)

Rank(api) ==
    CASE api = "describe_instances" -> 1
      [] api = "stop_instances" -> 2
      [] api = "describe_db_instances" -> 3
      [] api = "stop_db_instance" -> 4

\* C9: the calls of one invocation come in one fixed order: the compute
\* listing (once), the compute stop requests, the pages of the database
\* listing (each page once, one pass), the database stop calls.  dry_run is
\* false in both phases.  A database listing call is made only after every
\* listed compute instance has had its stop request, and a database stop call
\* only after the database listing has read all its pages.
C9_FixedSequence ==
    \A p \in Invocations :
        /\ \A i, j \in DOMAIN calls[p] :
              i < j => Rank(calls[p][i].api) <= Rank(calls[p][j].api)
        /\ Len(ByApi(p, "describe_instances")) <= 1
        /\ Ids(DbListings(p)) = [i \in 1..Len(DbListings(p)) |-> i]
        /\ DbListings(p) # <<>> => Ids(Ec2Stops(p)) = vm_list[p]
        /\ RdsStops(p) # <<>> => /\ Len(DbListings(p)) = Len(dbPages)
                                 /\ ~Outcome(DbListings(p), "ClientError")
        /\ ~dry_run[p]
        /\ \A i \in DOMAIN Ec2Stops(p) : ~Ec2Stops(p)[i].DryRun

C9_Witness ==
    \E p \in Invocations :
        /\ pc[p] = "done"
        /\ Len(Ec2Stops(p)) >= 2
        /\ Len(DbListings(p)) >= 2
        /\ Len(RdsStops(p)) >= 2

\* C10: the stop decision uses the status of the listing, without asking
\* again: a listed instance gets its stop request whatever its state is by
\* then, and a database listed with a status other than "stopped" gets its
\* stop call even when its status has changed since (to "stopped", too); if
\* the provider rejects that call the invocation ends by raising.
C10_DecisionOnListedStatus ==
    [][\A p \in Invocations :
          /\ (pc[p] = "turnoff_ec2_vms" /\ Stepped(p)) =>
                /\ Called(p, "stop_instances")
                /\ Last(calls'[p]).id = vm_list[p][vm_i[p]]
                /\ Last(calls'[p]).seen = vmState[vm_list[p][vm_i[p]]]
          /\ (pc[p] = "stop_rds_dbs" /\ Stepped(p)) =>
                LET r == db_list[p][db_i[p]]
                    id == r.DBInstanceIdentifier
                IN  (r.DBInstanceStatus # "stopped" /\ dbStatus[id] # r.DBInstanceStatus) =>
                        /\ Called(p, "stop_db_instance")
                        /\ Last(calls'[p]).id = id
                        /\ Last(calls'[p]).seen = dbStatus[id]
                        /\ (pc'[p] = "raised") = (Last(calls'[p]).outcome # "ok")]_vars

\* Two overlapping runs have both sent a stop request for the same instance,
\* and one of them sent a stop call for a database that had become stopped
\* after it was listed, was refused and ended by raising.
C10_Witness ==
    \E p, q \in Invocations :
        /\ p # q
        /\ \E v \in Vms : Count(Ec2Stops(p), v) = 1 /\ Count(Ec2Stops(q), v) = 1
        /\ RaisedBy(q, "stop_db_instance")
        /\ Last(calls[q]).seen = "stopped"
        /\ db_list[q][db_i[q]].DBInstanceStatus = "available"

=============================================================================
